---- MODULE Spec2Model ----
(***************************************************************************)
(* Model of call-app: the call lifecycle (Call / CallParticipant /         *)
(* AudioUpload / CallSummary rows, the upload gate of confirm-upload and   *)
(* upload, the process endpoint and processCall) and the Socket.IO         *)
(* signaling relay with the client's call state.                           *)
(***************************************************************************)
EXTENDS Integers, Sequences, FiniteSets, TLC

\* ------------------------------------------------------------------ bounds
MaxReqs == 3      \* upload / confirm-upload requests issued in a behaviour
MaxRuns == 1      \* processCall invocations in flight at the same time

MaxInbox == 1     \* relayed events in flight to one connection
MaxCalls == 1     \* calls placed (callUser) in a behaviour
MaxSegs == 3      \* segments of one transcription
MaxEnded == 3     \* handleCallEnded invocations of one page in one session
MaxStart == 5     \* start times of segments, in seconds

Users == {"u1", "u2"}

CallStatuses == {"IN_PROGRESS", "AWAITING_UPLOADS", "PROCESSING", "COMPLETED", "FAILED"}
NoCall == "NONE"

VARIABLES
  callStatus,       \* Call.status, or NoCall while the Call row does not exist
  mergedAudioPath,  \* Call.mergedAudioPath is set
  participants,     \* CallParticipant rows: [userId, role, leftAt]
  audioUploads,     \* AudioUpload rows: [id, userId, filePath, status]
  summaries,        \* CallSummary rows of the Call: [mergedTranscript, summary]
  s3Deleted,        \* raw audio objects deleted from the bucket
  reqs,             \* upload / confirm-upload handler instances
  runs,             \* processCall invocations
  sock,             \* each socket id: "new", "open" (connected) or "closed"
  inbox,            \* each connection: the events emitted to it, not yet handled
  client,           \* each connection's VideoCall component state
  calls,            \* the number of calls placed so far
  segments,         \* the segments a transcription has collected, as emitted
  transcript,       \* the segments as the transcript lists them
  rec               \* one page's useRecording refs and its handleCallEnded calls

relayVars == <<sock, inbox, client, calls>>

transcriptVars == <<segments, transcript>>

recordingVars == <<rec>>

lifecycleVars == <<callStatus, mergedAudioPath, participants, audioUploads,
                   summaries, s3Deleted, reqs, runs>>

vars == <<callStatus, mergedAudioPath, participants, audioUploads,
          summaries, s3Deleted, reqs, runs, sock, inbox, client, calls,
          segments, transcript, rec>>

\* ------------------------------------------------------------- helpers
\* a check that lets every signed-in user through
AnyoneMayUpload(u) == TRUE

IsParticipant(u) == \E p \in participants : p.userId = u

UploadsOf(u) == {r \in audioUploads : r.userId = u}

\* the row of AudioUpload with the given id, status replaced
SetUploadStatus(ids, st) ==
  {IF r.id \in ids THEN [r EXCEPT !.status = st] ELSE r : r \in audioUploads}

Conns == {"s1", "s2", "s3"}       \* socket ids; the server gives each out once

\* VideoCall's state as the page loads
NewClient ==
  [isCalling |-> FALSE, callAccepted |-> FALSE, callEnded |-> FALSE,
   incoming |-> "", peer |-> "", onAccepted |-> FALSE]

\* no transcription under way
NoTranscription == segments = <<>> /\ transcript = <<>>

\* useRecording before any recording: the refs as useRef initialises them
IdleRecording ==
  [isRecording |-> FALSE, recorder |-> "none", stopPending |-> FALSE,
   blob |-> FALSE, isUploading |-> FALSE, hasUploaded |-> FALSE,
   callId |-> FALSE, requests |-> 0, confirmed |-> 0, failed |-> 0,
   handlers |-> <<>>]

NoRecording == rec = IdleRecording

RelayInit ==
  /\ sock = [c \in Conns |-> "new"]
  /\ inbox = [c \in Conns |-> <<>>]
  /\ client = [c \in Conns |-> NewClient]
  /\ calls = 0

Init ==
  /\ callStatus = NoCall
  /\ mergedAudioPath = FALSE
  /\ participants = {}
  /\ audioUploads = {}
  /\ summaries = <<>>
  /\ s3Deleted = {}
  /\ reqs = <<>>
  /\ runs = <<>>
  /\ RelayInit
  /\ NoTranscription
  /\ NoRecording

\* ------------------------------------------------ POST /api/calls (create)
CreateCall(u) ==
  /\ callStatus = NoCall          \* otherwise 409 "Call already exists"
  /\ callStatus' = "IN_PROGRESS"
  /\ participants' = {[userId |-> u, role |-> "caller", leftAt |-> FALSE]}
  /\ UNCHANGED <<mergedAudioPath, audioUploads, summaries, s3Deleted, reqs, runs>>
  /\ UNCHANGED <<relayVars, transcriptVars, recordingVars>>

\* The same handler step by step, for creates that run at the same time: the
\* findUnique (an existing Call is answered 409 at once), then the insert of
\* the Call with its first participant.
NewCreate(u) ==
  LET exists == callStatus # NoCall
  IN [kind |-> "create", user |-> u,
      pc |-> IF exists THEN "done" ELSE "callCreate",
      nParts |-> 0,
      result |-> IF exists THEN "409" ELSE "pending", ready |-> FALSE]

CreateRead(u) ==
  /\ reqs' = Append(reqs, NewCreate(u))
  /\ UNCHANGED <<callStatus, mergedAudioPath, participants, audioUploads,
                 summaries, s3Deleted, runs>>
  /\ UNCHANGED <<relayVars, transcriptVars, recordingVars>>

\* a table without the unique index on callId
NoCallIndex == FALSE

\* Call_callId_key: the insert throws when a Call has the callId
UniqueCallViolated == callStatus # NoCall

CreateResult(r, code) ==
  [kind |-> r.kind, user |-> r.user, pc |-> "done", nParts |-> r.nParts,
   result |-> code, ready |-> FALSE]

\* prisma.call.create with the nested participant; a throw is answered 500
CreateWrite(i) ==
  /\ i \in DOMAIN reqs
  /\ reqs[i].pc = "callCreate"
  /\ IF UniqueCallViolated
       THEN /\ reqs' = [reqs EXCEPT ![i] = CreateResult(reqs[i], "500")]
            /\ UNCHANGED <<callStatus, participants>>
       ELSE /\ callStatus' = "IN_PROGRESS"
            /\ participants' = participants \cup
                 {[userId |-> reqs[i].user, role |-> "caller", leftAt |-> FALSE]}
            /\ reqs' = [reqs EXCEPT ![i] = CreateResult(reqs[i], "201")]
  /\ UNCHANGED <<mergedAudioPath, audioUploads, summaries, s3Deleted, runs>>
  /\ UNCHANGED <<relayVars, transcriptVars, recordingVars>>

\* ------------------------------------------ POST /api/calls/[callId]/join
\* a join that inserts the new participant as a caller
JoinAsCaller(u) ==
  /\ callStatus = "IN_PROGRESS"
  /\ IF IsParticipant(u)
       THEN participants' = {IF p.userId = u THEN [p EXCEPT !.leftAt = FALSE] ELSE p
                               : p \in participants}
       ELSE participants' = participants \cup
                               {[userId |-> u, role |-> "caller", leftAt |-> FALSE]}
  /\ UNCHANGED <<callStatus, mergedAudioPath, audioUploads, summaries, s3Deleted, reqs, runs>>
  /\ UNCHANGED <<relayVars, transcriptVars, recordingVars>>

JoinCall(u) ==
  /\ callStatus = "IN_PROGRESS"   \* 404 without a Call, 400 in any other status
  /\ IF IsParticipant(u)
       THEN participants' = {IF p.userId = u THEN [p EXCEPT !.leftAt = FALSE] ELSE p
                               : p \in participants}
       ELSE participants' = participants \cup
                               {[userId |-> u, role |-> "callee", leftAt |-> FALSE]}
  /\ UNCHANGED <<callStatus, mergedAudioPath, audioUploads, summaries, s3Deleted, reqs, runs>>
  /\ UNCHANGED <<relayVars, transcriptVars, recordingVars>>

\* The same handler step by step, for joins that run at the same time: the
\* findUnique with what it decides (a participant who has not left is answered
\* at once), then the one write.  Anyone signed in may ask to join.
People == Users \cup {"u3"}

NewJoin(u) ==
  LET mine == {p \in participants : p.userId = u}
      pc == IF mine = {} THEN "joinCreate"
            ELSE IF \E p \in mine : p.leftAt THEN "rejoinClear"
            ELSE "done"
  IN [kind |-> "join", user |-> u, pc |-> pc,
      nParts |-> Cardinality(participants),
      result |-> IF pc = "done" THEN "200" ELSE "pending", ready |-> FALSE]

JoinRead(u) ==
  /\ callStatus = "IN_PROGRESS"   \* 404 without a Call, 400 in any other status
  /\ reqs' = Append(reqs, NewJoin(u))
  /\ UNCHANGED <<callStatus, mergedAudioPath, participants, audioUploads,
                 summaries, s3Deleted, runs>>
  /\ UNCHANGED <<relayVars, transcriptVars, recordingVars>>

\* a table without the unique index
NoParticipantIndex(u) == FALSE

\* CallParticipant_callId_userId_key: the insert throws when the user has a row
UniqueParticipantViolated(u) == IsParticipant(u)

JoinResult(r, code) ==
  [kind |-> r.kind, user |-> r.user, pc |-> "done", nParts |-> r.nParts,
   result |-> code, ready |-> FALSE]

\* prisma.callParticipant.update (leftAt: null) or prisma.callParticipant.create
JoinWrite(i) ==
  /\ i \in DOMAIN reqs
  /\ reqs[i].pc \in {"joinCreate", "rejoinClear"}
  /\ IF reqs[i].pc = "rejoinClear"
       THEN /\ participants' =
                 {IF p.userId = reqs[i].user THEN [p EXCEPT !.leftAt = FALSE] ELSE p
                    : p \in participants}
            /\ reqs' = [reqs EXCEPT ![i] = JoinResult(reqs[i], "200")]
       ELSE IF UniqueParticipantViolated(reqs[i].user)
         THEN /\ reqs' = [reqs EXCEPT ![i] = JoinResult(reqs[i], "500")]
              /\ UNCHANGED participants
         ELSE /\ participants' = participants \cup
                   {[userId |-> reqs[i].user, role |-> "callee", leftAt |-> FALSE]}
              /\ reqs' = [reqs EXCEPT ![i] = JoinResult(reqs[i], "200")]
  /\ UNCHANGED <<callStatus, mergedAudioPath, audioUploads, summaries, s3Deleted, runs>>
  /\ UNCHANGED <<relayVars, transcriptVars, recordingVars>>

\* ----------------------------------------------- PATCH /api/calls/[callId]
PatchInputs == CallStatuses \cup {"null", "BOGUS"}

PatchStatus(endCall, st) ==
  IF st \in CallStatuses THEN st
  ELSE IF st = "BOGUS" THEN callStatus          \* 400 "Invalid status": no call.update
  ELSE IF endCall THEN "AWAITING_UPLOADS"
  ELSE callStatus

PatchCall(u, endCall, st) ==
  /\ callStatus # NoCall          \* 404
  /\ IsParticipant(u)             \* 403
  /\ participants' = IF endCall
                       THEN {IF p.userId = u THEN [p EXCEPT !.leftAt = TRUE] ELSE p
                               : p \in participants}
                       ELSE participants
  /\ callStatus' = PatchStatus(endCall, st)
  /\ UNCHANGED <<mergedAudioPath, audioUploads, summaries, s3Deleted, reqs, runs>>
  /\ UNCHANGED <<relayVars, transcriptVars, recordingVars>>

\* ---------------- POST /api/calls/[callId]/confirm-upload and .../upload
\* The handler's first query: the Call with its participants and uploads.  A
\* request without a Call (404) or by a non-participant (403) returns at once.
\* The request's s3Key and the id of the row it creates are its index in reqs.
\* a handler that has returned: its response (status code and
\* allParticipantsUploaded) beside what it read
Finished(r, code, ready) ==
  [kind |-> r.kind, user |-> r.user, pc |-> "done", nParts |-> r.nParts,
   result |-> code, ready |-> ready]

NewReq(kind, u) ==
  IF UploadsOf(u) # {}
    THEN [kind |-> kind, user |-> u, pc |-> "done",
          nParts |-> Cardinality(participants),
          result |-> "409", ready |-> FALSE]
    ELSE [kind |-> kind, user |-> u, pc |-> "create",
          nParts |-> Cardinality(participants),
          result |-> "pending", ready |-> FALSE]

UploadRead(kind, u) ==
  /\ callStatus # NoCall
  /\ IsParticipant(u)
  /\ reqs' = Append(reqs, NewReq(kind, u))
  /\ UNCHANGED <<callStatus, mergedAudioPath, participants, audioUploads,
                 summaries, s3Deleted, runs>>
  /\ UNCHANGED <<relayVars, transcriptVars, recordingVars>>

\* a table without the unique index
NoUniqueIndex(u) == FALSE

\* AudioUpload_callId_userId_key: the insert throws when the user has a row
UniqueUploadViolated(u) == UploadsOf(u) # {}

\* prisma.audioUpload.create; upload/route.ts stores the object first
UploadCreate(i, stored) ==
  /\ i \in DOMAIN reqs
  /\ reqs[i].pc = "create"
  /\ stored \/ reqs[i].kind = "upload"
  /\ IF ~stored \/ UniqueUploadViolated(reqs[i].user)
       THEN /\ reqs' = [reqs EXCEPT ![i] = Finished(reqs[i], "500", FALSE)]
            /\ UNCHANGED audioUploads
       ELSE /\ audioUploads' = audioUploads \cup
                 {[id |-> i, userId |-> reqs[i].user, filePath |-> i,
                   status |-> "PENDING"]}
            /\ reqs' = [reqs EXCEPT ![i].pc = "recount"]
  /\ UNCHANGED <<callStatus, mergedAudioPath, participants, summaries, s3Deleted, runs>>
  /\ UNCHANGED <<relayVars, transcriptVars, recordingVars>>

\* a gate that finds every count sufficient
AlwaysReady(i) == TRUE

\* a gate that asks for more uploads than participants
StrictlyMore(i) == Cardinality(audioUploads) > reqs[i].nParts

\* allUploads.length >= call.participants.length
AllParticipantsUploaded(i) == Cardinality(audioUploads) >= reqs[i].nParts

\* prisma.audioUpload.findMany and the comparison
UploadRecount(i) ==
  /\ i \in DOMAIN reqs
  /\ reqs[i].pc = "recount"
  /\ reqs' = IF AllParticipantsUploaded(i)
               THEN [reqs EXCEPT ![i].pc = "update"]
               ELSE [reqs EXCEPT ![i] = Finished(reqs[i], "200", FALSE)]
  /\ UNCHANGED <<callStatus, mergedAudioPath, participants, audioUploads,
                 summaries, s3Deleted, runs>>
  /\ UNCHANGED <<relayVars, transcriptVars, recordingVars>>

\* A processCall invocation; via tells who called it (the upload gate or the
\* process endpoint).  A run that has returned keeps its ProcessingResult
\* (pc "done": success, pc "failed": success false with error) until a later
\* invocation takes its place in runs.
NewRun(via) ==
  [via |-> via, pc |-> "load", callerUp |-> 0, calleeUp |-> 0, error |-> "none"]

Returned(r) == r.pc \in {"done", "failed"}

Spawn(via) ==
  LET old == {i \in DOMAIN runs : Returned(runs[i])}
  IN IF old = {} THEN Append(runs, NewRun(via))
     ELSE [runs EXCEPT ![CHOOSE i \in old : \A j \in old : i <= j] = NewRun(via)]

\* a gate that starts no processCall
NoTrigger(i) == runs

\* confirm-upload starts processCall without awaiting it; upload does not
GateRuns(i) ==
  IF reqs[i].kind = "confirm" THEN Spawn("gate") ELSE runs

\* prisma.call.update to PROCESSING, the trigger and the response
UploadUpdate(i) ==
  /\ i \in DOMAIN reqs
  /\ reqs[i].pc = "update"
  /\ callStatus' = "PROCESSING"
  /\ runs' = GateRuns(i)
  /\ reqs' = [reqs EXCEPT ![i] = Finished(reqs[i], "200", TRUE)]
  /\ UNCHANGED <<mergedAudioPath, participants, audioUploads, summaries, s3Deleted>>
  /\ UNCHANGED <<relayVars, transcriptVars, recordingVars>>

\* --------------------------------------- POST /api/calls/[callId]/process
RouteAllowedStatuses == {"AWAITING_UPLOADS", "PROCESSING", "FAILED"}

ProcessRoute(u) ==
  /\ callStatus # NoCall                     \* 404
  /\ IsParticipant(u)                        \* 403
  /\ summaries = <<>>                           \* 409 "Call already has a summary"
  /\ Cardinality(audioUploads) >= 2          \* 400 "Not enough audio uploads"
  /\ callStatus \in RouteAllowedStatuses     \* 400 "Cannot process call"
  /\ runs' = Spawn("route")
  /\ UNCHANGED <<callStatus, mergedAudioPath, participants, audioUploads,
                 summaries, s3Deleted, reqs>>
  /\ UNCHANGED <<relayVars, transcriptVars, recordingVars>>

\* ------------------------------------------------------------ processCall
ProcessAllowedStatuses == {"PROCESSING", "AWAITING_UPLOADS"}

\* a resolution by the order of upload: the first row is the caller's
ResolveByOrder(role) ==
  LET ids == {r.id : r \in audioUploads}
  IN IF ids = {} THEN {0}
     ELSE IF role = "caller" THEN {CHOOSE a \in ids : \A b \in ids : a <= b}
     ELSE {CHOOSE a \in ids : \A b \in ids : a >= b}

\* participants.find(role) then audioUploads.find(userId): -1 without such a
\* participant, 0 without an upload of that participant, else the row's id
ResolveUpload(role) ==
  LET ps == {p \in participants : p.role = role}
  IN IF ps = {} THEN {-1}
     ELSE UNION {IF UploadsOf(p.userId) = {} THEN {0}
                 ELSE {r.id : r \in UploadsOf(p.userId)} : p \in ps}

Throw(i, err) == [runs EXCEPT ![i].pc = "catch", ![i].error = err]

\* `Invalid call status for processing: ${call.status}`
InvalidStatus(st) == <<"InvalidStatus", st>>

\* Steps 1 and 2: the findUnique and the validation of what it returned
ProcessLoad(i) ==
  /\ i \in DOMAIN runs
  /\ runs[i].pc = "load"
  /\ IF callStatus \notin ProcessAllowedStatuses
       THEN runs' = Throw(i, InvalidStatus(callStatus))
       ELSE IF Cardinality(audioUploads) < 2
         THEN runs' = Throw(i, "NotEnoughUploads")
         ELSE \E a \in ResolveUpload("caller"), b \in ResolveUpload("callee") :
                runs' = [runs EXCEPT ![i].pc = "markCall",
                                     ![i].callerUp = a, ![i].calleeUp = b]
  /\ UNCHANGED <<callStatus, mergedAudioPath, participants, audioUploads,
                 summaries, s3Deleted, reqs>>
  /\ UNCHANGED <<relayVars, transcriptVars, recordingVars>>

\* an update to PROCESSING that goes on without the role resolution
MarkCallUnchecked(i) ==
  /\ i \in DOMAIN runs
  /\ runs[i].pc = "markCall"
  /\ callStatus' = "PROCESSING"
  /\ runs' = [runs EXCEPT ![i].pc = "markUploads"]
  /\ UNCHANGED <<mergedAudioPath, participants, audioUploads, summaries, s3Deleted, reqs>>
  /\ UNCHANGED <<relayVars, transcriptVars, recordingVars>>

\* the update to PROCESSING, then the role resolution on the loaded rows
ProcessMarkCall(i) ==
  /\ i \in DOMAIN runs
  /\ runs[i].pc = "markCall"
  /\ callStatus' = "PROCESSING"
  /\ runs' = IF runs[i].callerUp = -1 \/ runs[i].calleeUp = -1
               THEN Throw(i, "RoleResolution")
               ELSE IF runs[i].callerUp = 0 \/ runs[i].calleeUp = 0
                 THEN Throw(i, "UploadsMissing")
                 ELSE [runs EXCEPT ![i].pc = "markUploads"]
  /\ UNCHANGED <<mergedAudioPath, participants, audioUploads, summaries, s3Deleted, reqs>>
  /\ UNCHANGED <<relayVars, transcriptVars, recordingVars>>

RunUploads(i) == {runs[i].callerUp, runs[i].calleeUp}

\* mergeToStereo(callerAudio, calleeAudio): the first buffer is the left
\* channel (channel 0), the second the right (channel 1)
MergeInputs(i) == [left |-> runs[i].callerUp, right |-> runs[i].calleeUp]

\* transcribeMultichannel(mergedAudio, callerName, calleeName): the user whose
\* name labels channel 0 and the one whose name labels channel 1
NameOf(id) == {r.userId : r \in {q \in audioUploads : q.id = id}}

ChannelNames(i) == [ch0 |-> NameOf(runs[i].callerUp), ch1 |-> NameOf(runs[i].calleeUp)]

ProcessMarkUploads(i) ==
  /\ i \in DOMAIN runs
  /\ runs[i].pc = "markUploads"
  /\ audioUploads' = SetUploadStatus(RunUploads(i), "PROCESSING")
  /\ runs' = [runs EXCEPT ![i].pc = "download"]
  /\ UNCHANGED <<callStatus, mergedAudioPath, participants, summaries, s3Deleted, reqs>>
  /\ UNCHANGED <<relayVars, transcriptVars, recordingVars>>

\* Steps 3 to 6, none of which touches the database: downloadFromS3 of both
\* files (the object's key is the row's filePath), mergeToStereo, uploadToS3
\* of the merged file and transcribeMultichannel.  The first that throws ends
\* the try block.
StageErrors == {"FetchError", "MergeError", "StoreError", "TranscriptionError"}

ProcessExternal(i, outcome) ==
  /\ i \in DOMAIN runs
  /\ runs[i].pc = "download"
  /\ RunUploads(i) \cap s3Deleted # {} => outcome = "FetchError"
  /\ runs' = IF outcome = "ok" THEN [runs EXCEPT ![i].pc = "createSummary"]
             ELSE Throw(i, outcome)
  /\ UNCHANGED <<callStatus, mergedAudioPath, participants, audioUploads,
                 summaries, s3Deleted, reqs>>
  /\ UNCHANGED <<relayVars, transcriptVars, recordingVars>>

\* the row callSummary.create writes: the transcript of transcribeMultichannel
\* and summary: null; no step of processCall calls generateSummary
SummaryFilled == [mergedTranscript |-> "transcript", summary |-> "text"]

SummaryData == [mergedTranscript |-> "transcript", summary |-> "null"]

\* CallSummary_callId_key: the insert throws when the Call has a summary
UniqueSummaryViolated == Len(summaries) >= 1

\* a run that goes on to the update without inserting the CallSummary
SkipSummary(i) ==
  /\ i \in DOMAIN runs
  /\ runs[i].pc = "createSummary"
  /\ runs' = [runs EXCEPT ![i].pc = "complete"]
  /\ UNCHANGED <<callStatus, mergedAudioPath, participants, audioUploads,
                 summaries, s3Deleted, reqs>>
  /\ UNCHANGED <<relayVars, transcriptVars, recordingVars>>

ProcessCreateSummary(i) ==
  /\ i \in DOMAIN runs
  /\ runs[i].pc = "createSummary"
  /\ IF UniqueSummaryViolated
       THEN /\ runs' = Throw(i, "SummaryExists")
            /\ UNCHANGED summaries
       ELSE /\ summaries' = Append(summaries, SummaryData)
            /\ runs' = [runs EXCEPT ![i].pc = "complete"]
  /\ UNCHANGED <<callStatus, mergedAudioPath, participants, audioUploads, s3Deleted, reqs>>
  /\ UNCHANGED <<relayVars, transcriptVars, recordingVars>>

ProcessComplete(i) ==
  /\ i \in DOMAIN runs
  /\ runs[i].pc = "complete"
  /\ callStatus' = "COMPLETED"
  /\ mergedAudioPath' = TRUE
  /\ runs' = [runs EXCEPT ![i].pc = "completeUploads"]
  /\ UNCHANGED <<participants, audioUploads, summaries, s3Deleted, reqs>>
  /\ UNCHANGED <<relayVars, transcriptVars, recordingVars>>

ProcessCompleteUploads(i) ==
  /\ i \in DOMAIN runs
  /\ runs[i].pc = "completeUploads"
  /\ audioUploads' = SetUploadStatus(RunUploads(i), "COMPLETED")
  /\ runs' = [runs EXCEPT ![i].pc = "cleanup"]
  /\ UNCHANGED <<callStatus, mergedAudioPath, participants, summaries, s3Deleted, reqs>>
  /\ UNCHANGED <<relayVars, transcriptVars, recordingVars>>

\* a cleanup in which a failed deletion is thrown into the catch block
CleanupEscalates(i, deleted) ==
  /\ i \in DOMAIN runs
  /\ runs[i].pc = "cleanup"
  /\ deleted \subseteq RunUploads(i)
  /\ s3Deleted' = s3Deleted \cup deleted
  /\ runs' = IF deleted = RunUploads(i)
               THEN [runs EXCEPT ![i].pc = "done", ![i].callerUp = 0, ![i].calleeUp = 0]
               ELSE Throw(i, "DeleteError")
  /\ UNCHANGED <<callStatus, mergedAudioPath, participants, audioUploads, summaries, reqs>>
  /\ UNCHANGED <<relayVars, transcriptVars, recordingVars>>

\* deleteFromS3 of both raw files, each failure caught and logged; the return
ProcessCleanup(i, deleted) ==
  /\ i \in DOMAIN runs
  /\ runs[i].pc = "cleanup"
  /\ deleted \subseteq RunUploads(i)
  /\ s3Deleted' = s3Deleted \cup deleted
  /\ runs' = [runs EXCEPT ![i].pc = "done", ![i].callerUp = 0, ![i].calleeUp = 0]
  /\ UNCHANGED <<callStatus, mergedAudioPath, participants, audioUploads, summaries, reqs>>
  /\ UNCHANGED <<relayVars, transcriptVars, recordingVars>>

\* a catch block that returns the error without the update to FAILED
CatchWithoutUpdate(i) ==
  /\ i \in DOMAIN runs
  /\ runs[i].pc = "catch"
  /\ runs' = [runs EXCEPT ![i].pc = "failed", ![i].callerUp = 0, ![i].calleeUp = 0]
  /\ UNCHANGED <<callStatus, mergedAudioPath, participants, audioUploads,
                 summaries, s3Deleted, reqs>>
  /\ UNCHANGED <<relayVars, transcriptVars, recordingVars>>

\* a catch block that also removes the raw audio of the Call
CatchAndDelete(i) ==
  /\ i \in DOMAIN runs
  /\ runs[i].pc = "catch"
  /\ callStatus' = "FAILED"
  /\ s3Deleted' = s3Deleted \cup {r.id : r \in audioUploads}
  /\ runs' = [runs EXCEPT ![i].pc = "failed", ![i].callerUp = 0, ![i].calleeUp = 0]
  /\ UNCHANGED <<mergedAudioPath, participants, audioUploads, summaries, reqs>>
  /\ UNCHANGED <<relayVars, transcriptVars, recordingVars>>

\* the catch block: the update to FAILED and the return of success: false
ProcessCatch(i) ==
  /\ i \in DOMAIN runs
  /\ runs[i].pc = "catch"
  /\ callStatus' = "FAILED"
  /\ runs' = [runs EXCEPT ![i].pc = "failed", ![i].callerUp = 0, ![i].calleeUp = 0]
  /\ UNCHANGED <<mergedAudioPath, participants, audioUploads, summaries, s3Deleted, reqs>>
  /\ UNCHANGED <<relayVars, transcriptVars, recordingVars>>

\* ----------------------------------------------------- getProcessingStatus
GetProcessingStatus ==
  [status |-> callStatus,
   uploadsComplete |-> Cardinality(audioUploads),
   uploadsTotal |-> Cardinality(participants),
   hasSummary |-> Len(summaries) > 0]

\* ------------------------------------------------------- specifications
\* The upload gate: the handlers of create, join, upload and confirm-upload
\* from the empty database.  The gate reads the Call's participants and
\* uploads only, which no processCall step and no PATCH adds or removes; the
\* runs it starts stay at their first query.
GateNext ==
  \/ \E u \in Users : CreateCall(u)
  \/ \E u \in Users : JoinCall(u)
  \/ \E k \in {"confirm", "upload"}, u \in Users :
       Len(reqs) < MaxReqs /\ UploadRead(k, u)
  \/ \E i \in DOMAIN reqs, stored \in BOOLEAN : UploadCreate(i, stored)
  \/ \E i \in DOMAIN reqs : UploadRecount(i)
  \/ \E i \in DOMAIN reqs : UploadUpdate(i)

SpecGate == Init /\ [][GateNext]_vars

\* The pipeline: the database as the gate leaves it when the last upload is
\* confirmed, then PATCH, the process endpoint and the steps of processCall.
Caller == [userId |-> "u1", role |-> "caller", leftAt |-> FALSE]
Callee == [userId |-> "u2", role |-> "callee", leftAt |-> FALSE]
Row(i, u) == [id |-> i, userId |-> u, filePath |-> i, status |-> "PENDING"]

PipelineInit ==
  /\ callStatus = "PROCESSING"
  /\ mergedAudioPath = FALSE
  /\ summaries = <<>>
  /\ s3Deleted = {}
  /\ reqs = <<>>
  /\ RelayInit
  /\ NoTranscription
  /\ NoRecording
  /\ \/ /\ participants = {Caller, Callee}     \* both confirmed their upload
        /\ audioUploads = {Row(1, "u1"), Row(2, "u2")}
        /\ runs = <<NewRun("gate")>>
     \/ /\ participants = {Caller}             \* nobody joined, the caller confirmed
        /\ audioUploads = {Row(1, "u1")}
        /\ runs = <<NewRun("gate")>>
     \/ /\ participants = {Caller, Callee}     \* both uploaded through upload/route.ts
        /\ audioUploads = {Row(1, "u1"), Row(2, "u2")}
        /\ runs = <<>>

CanSpawn(n) == Len(runs) < n \/ \E i \in DOMAIN runs : Returned(runs[i])

PipelineSteps ==
  \/ \E i \in DOMAIN runs : ProcessLoad(i)
  \/ \E i \in DOMAIN runs : ProcessMarkCall(i)
  \/ \E i \in DOMAIN runs : ProcessMarkUploads(i)
  \/ \E i \in DOMAIN runs, o \in StageErrors \cup {"ok"} : ProcessExternal(i, o)
  \/ \E i \in DOMAIN runs : ProcessCreateSummary(i)
  \/ \E i \in DOMAIN runs : ProcessComplete(i)
  \/ \E i \in DOMAIN runs : ProcessCompleteUploads(i)
  \/ \E i \in DOMAIN runs, d \in SUBSET {1, 2} : ProcessCleanup(i, d)
  \/ \E i \in DOMAIN runs : ProcessCatch(i)

PipelineNext ==
  \/ \E u \in Users, e \in BOOLEAN, st \in PatchInputs : PatchCall(u, e, st)
  \/ \E u \in Users : CanSpawn(MaxRuns) /\ ProcessRoute(u)
  \/ PipelineSteps

SpecPipeline == PipelineInit /\ [][PipelineNext]_vars

\* Role resolution: a third user has joined as a second callee, and two of
\* the three participants have uploaded, so that a run passes the count of
\* uploads and comes to resolve the caller's and the callee's rows.
Third == [userId |-> "u3", role |-> "callee", leftAt |-> FALSE]

RolesInit ==
  /\ callStatus = "PROCESSING"
  /\ mergedAudioPath = FALSE
  /\ participants = {Caller, Callee, Third}
  /\ audioUploads \in {{Row(1, "u1"), Row(2, "u3")}, {Row(1, "u2"), Row(2, "u3")}}
  /\ summaries = <<>>
  /\ s3Deleted = {}
  /\ reqs = <<>>
  /\ runs = <<NewRun("gate")>>
  /\ RelayInit
  /\ NoTranscription
  /\ NoRecording

SpecRoles == RolesInit /\ [][PipelineNext]_vars

\* Two invocations in flight and no PATCH: what processCall does to itself
ConcurrentNext ==
  \/ \E u \in Users : CanSpawn(MaxRuns + 1) /\ ProcessRoute(u)
  \/ PipelineSteps

SpecConcurrent == PipelineInit /\ [][ConcurrentNext]_vars

\* Membership: create, join step by step and PATCH, from the empty database.
\* Of PATCH's status inputs only IN_PROGRESS lets a join go on.
JoinNext ==
  \/ \E u \in Users : CreateCall(u)
  \/ \E u \in People : Len(reqs) < MaxReqs /\ JoinRead(u)
  \/ \E i \in DOMAIN reqs : JoinWrite(i)
  \/ \E u \in Users, e \in BOOLEAN, st \in {"null", "IN_PROGRESS"} :
       PatchCall(u, e, st)

SpecJoin == Init /\ [][JoinNext]_vars

\* The hand-over from the gate to the pipeline: both participants' rows are
\* inserted, the first confirm-upload has answered ready false, the second has
\* counted both rows and is about to update the Call and start processCall.
HandoffReqs(first, second) ==
  <<[kind |-> "confirm", user |-> first, pc |-> "done", nParts |-> 2,
     result |-> "200", ready |-> FALSE],
    [kind |-> "confirm", user |-> second, pc |-> "update", nParts |-> 2,
     result |-> "pending", ready |-> FALSE]>>

HandoffInit ==
  /\ callStatus \in {"IN_PROGRESS", "AWAITING_UPLOADS"}
  /\ mergedAudioPath = FALSE
  /\ participants = {Caller, Callee}
  /\ audioUploads = {Row(1, "u1"), Row(2, "u2")}
  /\ summaries = <<>>
  /\ s3Deleted = {}
  /\ runs = <<>>
  /\ reqs \in {HandoffReqs("u1", "u2"), HandoffReqs("u2", "u1")}
  /\ RelayInit
  /\ NoTranscription
  /\ NoRecording

HandoffNext ==
  \/ \E i \in DOMAIN reqs : UploadUpdate(i)
  \/ \E u \in Users : CanSpawn(MaxRuns) /\ ProcessRoute(u)
  \/ PipelineSteps

SpecHandoff == HandoffInit /\ [][HandoffNext]_vars

\* Creation: creates step by step at the same time, with the joins and the
\* end of the call that follow a create.
CreateNext ==
  \/ \E u \in Users : Len(reqs) < MaxReqs /\ CreateRead(u)
  \/ \E i \in DOMAIN reqs : CreateWrite(i)
  \/ \E u \in Users : JoinCall(u)
  \/ \E u \in Users : PatchCall(u, TRUE, "null")

SpecCreate == Init /\ [][CreateNext]_vars

\* A late upload: the caller's confirm-upload read the Call before the callee
\* joined, so it counted 1 upload for 1 participant, set PROCESSING and started
\* processCall; the callee, now a participant, has yet to upload.
LateInit ==
  /\ callStatus = "PROCESSING"
  /\ mergedAudioPath = FALSE
  /\ participants = {Caller, Callee}
  /\ audioUploads = {Row(1, "u1")}
  /\ summaries = <<>>
  /\ s3Deleted = {}
  /\ runs = <<NewRun("gate")>>
  /\ reqs = <<[kind |-> "confirm", user |-> "u1", pc |-> "done", nParts |-> 1,
               result |-> "200", ready |-> TRUE]>>
  /\ RelayInit
  /\ NoTranscription
  /\ NoRecording

LateNext ==
  \/ \E k \in {"confirm", "upload"}, u \in Users :
       Len(reqs) < MaxReqs /\ UploadRead(k, u)
  \/ \E i \in DOMAIN reqs, stored \in BOOLEAN : UploadCreate(i, stored)
  \/ \E i \in DOMAIN reqs : UploadRecount(i)
  \/ \E i \in DOMAIN reqs : UploadUpdate(i)
  \/ PipelineSteps

SpecLate == LateInit /\ [][LateNext]_vars

\* One session as the client drives it: create, join, the PATCH with endCall
\* of a call in progress, then the confirm-uploads one after the other, and
\* the processCall the gate starts.
NoRequestRunning == \A i \in DOMAIN reqs : reqs[i].pc = "done"

SessionNext ==
  \/ \E u \in Users : CreateCall(u)
  \/ \E u \in Users : JoinCall(u)
  \/ \E u \in Users : callStatus = "IN_PROGRESS" /\ PatchCall(u, TRUE, "null")
  \/ \E u \in Users :
       Len(reqs) < MaxReqs /\ NoRequestRunning /\ UploadRead("confirm", u)
  \/ \E i \in DOMAIN reqs : UploadCreate(i, TRUE)
  \/ \E i \in DOMAIN reqs : UploadRecount(i)
  \/ \E i \in DOMAIN reqs : UploadUpdate(i)
  \/ PipelineSteps

SpecSession == Init /\ [][SessionNext]_vars

\* ------------------------------------------- transcript (deepgram, gemini)
\* A segment is [speaker, start, text]; its text is written as the position at
\* which it was emitted.
Speakers == {"A", "B"}

SegmentLists ==
  UNION {[1..n -> Speakers \X (0..MaxStart)] : n \in 1..MaxSegs}

Collected(f) ==
  [i \in DOMAIN f |-> [speaker |-> f[i][1], start |-> f[i][2], text |-> i]]

\* the comparator (a, b) => a.start - b.start
CompareStart(a, b) == a.start - b.start

\* Array.prototype.sort, which is stable: x goes behind every element that
\* does not compare greater than it
RECURSIVE InsertSorted(_, _)
InsertSorted(x, sorted) ==
  IF sorted = <<>> THEN <<x>>
  ELSE IF CompareStart(Head(sorted), x) <= 0
    THEN <<Head(sorted)>> \o InsertSorted(x, Tail(sorted))
    ELSE <<x>> \o sorted

\* a transcript in the order of emission
Unsorted(segs) == segs

RECURSIVE SortSegments(_)
SortSegments(segs) ==
  IF segs = <<>> THEN <<>>
  ELSE InsertSorted(segs[Len(segs)], SortSegments(SubSeq(segs, 1, Len(segs) - 1)))

\* segments.sort(...) once the segments of both channels are collected
Transcribe ==
  /\ segments # <<>>
  /\ transcript = <<>>
  /\ transcript' = SortSegments(segments)
  /\ UNCHANGED <<segments, relayVars, lifecycleVars, recordingVars>>

\* the string built from the sorted segments, one block per segment:
\* `[${timestamp}] ${seg.speaker}: ${seg.text}`, joined by blank lines.  A block
\* is written [header, speaker, start, text]; header tells whether the block
\* begins with the timestamp and the speaker's name.
DeepgramText(segs) ==
  [k \in DOMAIN segs |->
     [header |-> TRUE, speaker |-> segs[k].speaker,
      start |-> segs[k].start, text |-> segs[k].text]]

\* transcriptionResult.transcript, which processCall stores as mergedTranscript
MergedTranscript == DeepgramText(transcript)

TranscriptInit ==
  /\ callStatus = NoCall
  /\ mergedAudioPath = FALSE
  /\ participants = {}
  /\ audioUploads = {}
  /\ summaries = <<>>
  /\ s3Deleted = {}
  /\ reqs = <<>>
  /\ runs = <<>>
  /\ RelayInit
  /\ segments \in {Collected(f) : f \in SegmentLists}
  /\ transcript = <<>>
  /\ NoRecording

SpecTranscript == TranscriptInit /\ [][Transcribe]_vars

\* ------------------------------------------------------ signaling relay
\* an emit that reaches every connected socket
EmitToAll(to, ev) ==
  [c \in Conns |-> IF sock[c] = "open" THEN Append(inbox[c], ev) ELSE inbox[c]]

\* io.to(id).emit: the room of a socket id has a member only while that
\* socket is connected
Emit(to, ev) ==
  [c \in Conns |-> IF c = to /\ sock[c] = "open" THEN Append(inbox[c], ev)
                   ELSE inbox[c]]

\* a disconnect handler that emits nothing
BroadcastNobody(x) == {}

\* socket.broadcast.emit: every connected socket but the sender
BroadcastTargets(x) == {c \in Conns : c # x /\ sock[c] = "open"}

Broadcast(x, ev) ==
  [c \in Conns |-> IF c \in BroadcastTargets(x) THEN Append(inbox[c], ev)
                   ELSE inbox[c]]

CallEndedEvent == [type |-> "callEnded", from |-> "", signal |-> ""]

\* the server's handlers of callUser, answerCall and endCall: what they emit
\* for the data a client sent
OnCallUser(data) ==
  Emit(data.userToCall,
       [type |-> "callUser", from |-> data.from, signal |-> data.signalData])

OnAnswerCall(data) ==
  Emit(data.to, [type |-> "callAccepted", from |-> "", signal |-> data.signal])

OnEndCall(data) == Emit(data.to, CallEndedEvent)

\* io.on("connection"): the id is sent to the new socket as "me"
\* a connection handler that announces the new id to every open connection
ConnectAnnounce(c) ==
  /\ sock[c] = "new"
  /\ sock' = [sock EXCEPT ![c] = "open"]
  /\ inbox' = [d \in Conns |->
                IF d = c \/ sock[d] = "open"
                  THEN Append(inbox[d], [type |-> "me", from |-> "", signal |-> c])
                  ELSE inbox[d]]
  /\ client' = [client EXCEPT ![c] = NewClient]
  /\ UNCHANGED <<calls, lifecycleVars, transcriptVars, recordingVars>>

Connect(c) ==
  /\ sock[c] = "new"
  /\ sock' = [sock EXCEPT ![c] = "open"]
  /\ inbox' = [inbox EXCEPT ![c] = <<[type |-> "me", from |-> "", signal |-> c]>>]
  /\ client' = [client EXCEPT ![c] = NewClient]
  /\ UNCHANGED <<calls, lifecycleVars, transcriptVars, recordingVars>>

\* socket.on("disconnect") when the page of c goes away; client[c] stays as
\* the page left it
Disconnect(c) ==
  /\ sock[c] = "open"
  /\ sock' = [sock EXCEPT ![c] = "closed"]
  /\ inbox' = [Broadcast(c, CallEndedEvent) EXCEPT ![c] = <<>>]
  /\ UNCHANGED <<client, calls, lifecycleVars, transcriptVars, recordingVars>>

IsCallActive(c) == client[c].callAccepted /\ ~client[c].callEnded

\* VideoCall.callUser(idToCall) and the server's callUser handler.  idToCall
\* is the text field's content, t, when the button is pressed; the payload a
\* connection signals is written as its own id
CallUser(c, t) ==
  /\ sock[c] = "open"
  /\ ~IsCallActive(c) /\ ~client[c].isCalling
  /\ client' = [client EXCEPT ![c].isCalling = TRUE, ![c].callEnded = FALSE,
                              ![c].peer = t, ![c].onAccepted = TRUE]
  /\ inbox' = OnCallUser([userToCall |-> t, signalData |-> c, from |-> c])
  /\ calls' = calls + 1
  /\ UNCHANGED <<sock, lifecycleVars, transcriptVars, recordingVars>>

\* VideoCall.answerCall and the server's answerCall handler
AnswerCall(c) ==
  /\ sock[c] = "open"
  /\ client[c].incoming # "" /\ ~client[c].callAccepted
  /\ client' = [client EXCEPT ![c].callAccepted = TRUE, ![c].callEnded = FALSE,
                              ![c].peer = client[c].incoming, ![c].incoming = ""]
  /\ inbox' = OnAnswerCall([to |-> client[c].incoming, signal |-> c])
  /\ UNCHANGED <<sock, calls, lifecycleVars, transcriptVars, recordingVars>>

DeclineCall(c) ==
  /\ sock[c] = "open"
  /\ client[c].incoming # "" /\ ~client[c].callAccepted
  /\ client' = [client EXCEPT ![c].incoming = ""]
  /\ UNCHANGED <<sock, inbox, calls, lifecycleVars, transcriptVars, recordingVars>>

\* handleCallEnded's reset of the component state
CallEndedState(st) ==
  [st EXCEPT !.callEnded = TRUE, !.callAccepted = FALSE, !.isCalling = FALSE,
             !.peer = ""]

\* VideoCall.leaveCall and the server's endCall handler; idToCall is the text
\* field's content when the button is pressed
LeaveTarget(c, idToCall) ==
  IF client[c].incoming # "" THEN client[c].incoming ELSE idToCall

LeaveCall(c, idToCall) ==
  /\ sock[c] = "open"
  /\ IsCallActive(c)
  /\ inbox' = OnEndCall([to |-> LeaveTarget(c, idToCall)])
  /\ client' = [client EXCEPT ![c] = CallEndedState(client[c])]
  /\ UNCHANGED <<sock, calls, lifecycleVars, transcriptVars, recordingVars>>

\* useSocket's listeners, applied to the next event the connection receives
Handle(st, ev) ==
  IF ev.type = "callUser" THEN [st EXCEPT !.incoming = ev.from]
  ELSE IF ev.type = "callAccepted" /\ st.onAccepted
    THEN [st EXCEPT !.callAccepted = TRUE, !.isCalling = FALSE]
  ELSE IF ev.type = "callEnded" THEN CallEndedState(st)
  ELSE st

Deliver(c) ==
  /\ sock[c] = "open"
  /\ inbox[c] # <<>>
  /\ client' = [client EXCEPT ![c] = Handle(client[c], Head(inbox[c]))]
  /\ inbox' = [inbox EXCEPT ![c] = Tail(inbox[c])]
  /\ UNCHANGED <<sock, calls, lifecycleVars, transcriptVars, recordingVars>>

Room(c) == Len(inbox[c]) < MaxInbox

RelayNext ==
  \/ \E c \in Conns : Connect(c)
  \/ \E c \in Conns : (\A d \in Conns : Room(d)) /\ Disconnect(c)
  \/ \E c \in Conns, t \in Conns : calls < MaxCalls /\ Room(t) /\ CallUser(c, t)
  \/ \E c \in Conns : (\A d \in Conns : Room(d)) /\ AnswerCall(c)
  \/ \E c \in Conns : DeclineCall(c)
  \/ \E c \in Conns, t \in Conns \cup {""} :
       (\A d \in Conns : Room(d)) /\ LeaveCall(c, t)
  \/ \E c \in Conns : Deliver(c)

SpecRelay == Init /\ [][RelayNext]_vars

\* socket.on("callUser") for a message from any program that holds a
\* connection: the server takes userToCall, from and signalData as sent
EmitCallUser(c, data) ==
  /\ sock[c] = "open"
  /\ inbox' = OnCallUser(data)
  /\ calls' = calls + 1
  /\ UNCHANGED <<sock, client, lifecycleVars, transcriptVars, recordingVars>>

CallUserData(c) ==
  [userToCall : Conns, signalData : {c}, from : Conns]

\* The relay with connections that send what they choose
PeersNext ==
  \/ RelayNext
  \/ \E c \in Conns : \E data \in CallUserData(c) :
       calls < MaxCalls /\ Room(data.userToCall) /\ EmitCallUser(c, data)

SpecPeers == Init /\ [][PeersNext]_vars

\* ------------------------------------- recording (useRecording, VideoCall)
\* One page in one recording session.  rec.handlers are the invocations of
\* handleCallEnded, each [pc, sawRecording, callId] with the isRecording and
\* the currentCallIdRef it read when it was called; requests, confirmed and
\* failed count the uploads that passed the guards of uploadRecording, those
\* whose confirm-upload was answered with success, and those that threw.
Handler(h) == rec.handlers[h]

Goto(h, pc) == [rec.handlers EXCEPT ![h].pc = pc]

\* the socket's callEnded, the peer's close or error, or leaveCall
HandleCallEnded ==
  /\ rec' = [rec EXCEPT !.handlers =
               Append(@, [pc |-> "endCall", sawRecording |-> rec.isRecording,
                          callId |-> rec.callId])]
  /\ UNCHANGED <<relayVars, lifecycleVars, transcriptVars>>

\* await endCallRecord, then if (isRecording)
AfterEndCall(h) ==
  /\ h \in DOMAIN rec.handlers
  /\ Handler(h).pc = "endCall"
  /\ rec' = [rec EXCEPT !.handlers =
               Goto(h, IF Handler(h).sawRecording THEN "stop" ELSE "reset")]
  /\ UNCHANGED <<relayVars, lifecycleVars, transcriptVars>>

AfterStop(hd) == IF hd.callId THEN "upload" ELSE "reset"

\* stopRecording: an active recorder is stopped and the promise waits for
\* onstop; otherwise the promise resolves at once
StopRecording(h) ==
  /\ h \in DOMAIN rec.handlers
  /\ Handler(h).pc = "stop"
  /\ rec' = IF rec.recorder = "recording"
              THEN [rec EXCEPT !.recorder = "inactive", !.stopPending = TRUE,
                               !.handlers = Goto(h, "awaitStop")]
              ELSE [rec EXCEPT !.isRecording = FALSE,
                               !.handlers = Goto(h, AfterStop(Handler(h)))]
  /\ UNCHANGED <<relayVars, lifecycleVars, transcriptVars>>

\* mediaRecorder.onstop: the blob is kept and the waiting promise resolves
OnStop ==
  /\ rec.stopPending
  /\ rec' = [rec EXCEPT !.stopPending = FALSE, !.blob = TRUE, !.isRecording = FALSE,
                        !.handlers = [h \in DOMAIN rec.handlers |->
                           IF Handler(h).pc = "awaitStop"
                             THEN [Handler(h) EXCEPT !.pc = AfterStop(Handler(h))]
                             ELSE Handler(h)]]
  /\ UNCHANGED <<relayVars, lifecycleVars, transcriptVars>>

\* an uploadRecording without its two guards
NoGuard == FALSE

\* isUploadingRef.current, then hasUploadedRef.current
UploadGuard == rec.isUploading \/ rec.hasUploaded

\* uploadRecording up to its first await: the guards, the blob, the flag
UploadRecording(h) ==
  /\ h \in DOMAIN rec.handlers
  /\ Handler(h).pc = "upload"
  /\ rec' = IF UploadGuard \/ ~rec.blob
              THEN [rec EXCEPT !.handlers = Goto(h, "reset")]
              ELSE [rec EXCEPT !.isUploading = TRUE, !.requests = @ + 1,
                               !.handlers = Goto(h, "uploading")]
  /\ UNCHANGED <<relayVars, lifecycleVars, transcriptVars>>

\* presign, PUT and confirm-upload all answered (ok), or one of them threw
UploadReturns(h, ok) ==
  /\ h \in DOMAIN rec.handlers
  /\ Handler(h).pc = "uploading"
  /\ rec' = IF ok
              THEN [rec EXCEPT !.blob = FALSE, !.hasUploaded = TRUE,
                               !.isUploading = FALSE, !.confirmed = @ + 1,
                               !.handlers = Goto(h, "reset")]
              ELSE [rec EXCEPT !.isUploading = FALSE, !.failed = @ + 1,
                               !.handlers = Goto(h, "reset")]
  /\ UNCHANGED <<relayVars, lifecycleVars, transcriptVars>>

\* the state resets and currentCallIdRef.current = null
ResetStates(h) ==
  /\ h \in DOMAIN rec.handlers
  /\ Handler(h).pc = "reset"
  /\ rec' = [rec EXCEPT !.callId = FALSE, !.handlers = Goto(h, "done")]
  /\ UNCHANGED <<relayVars, lifecycleVars, transcriptVars>>

\* startRecording has run in an accepted call: the flags are reset, the
\* recorder records, currentCallIdRef holds the call's id
RecordingInit ==
  /\ callStatus = NoCall
  /\ mergedAudioPath = FALSE
  /\ participants = {}
  /\ audioUploads = {}
  /\ summaries = <<>>
  /\ s3Deleted = {}
  /\ reqs = <<>>
  /\ runs = <<>>
  /\ RelayInit
  /\ NoTranscription
  /\ rec = [IdleRecording EXCEPT !.isRecording = TRUE, !.recorder = "recording",
                                 !.callId = TRUE]

RecordingNext ==
  \/ Len(rec.handlers) < MaxEnded /\ HandleCallEnded
  \/ \E h \in DOMAIN rec.handlers : AfterEndCall(h)
  \/ \E h \in DOMAIN rec.handlers : StopRecording(h)
  \/ OnStop
  \/ \E h \in DOMAIN rec.handlers : UploadRecording(h)
  \/ \E h \in DOMAIN rec.handlers, ok \in BOOLEAN : UploadReturns(h, ok)
  \/ \E h \in DOMAIN rec.handlers : ResetStates(h)

SpecRecording == RecordingInit /\ [][RecordingNext]_vars

\* ------------------------------------------------------ upload gate claims
\* two confirm-upload requests by the two participants of a two-party Call,
\* both answered with 200
BothConfirmed(i, j) ==
  /\ i # j
  /\ reqs[i].kind = "confirm" /\ reqs[j].kind = "confirm"
  /\ reqs[i].user # reqs[j].user
  /\ reqs[i].nParts = 2 /\ reqs[j].nParts = 2
  /\ reqs[i].result = "200" /\ reqs[j].result = "200"

\* C1: when the two participants of a Call have both confirmed their upload,
\* under any interleaving of the two handlers' steps, exactly one of the two
\* responses has allParticipantsUploaded = true and processCall was invoked
\* exactly once.
C1_ExactlyOneReady ==
  \A i, j \in DOMAIN reqs :
    BothConfirmed(i, j) => /\ reqs[i].ready # reqs[j].ready
                           /\ Len(runs) = 1

\* C2: in every reachable state there is at most one AudioUpload row for each
\* participant of the Call.
C2_OneUploadPerUser ==
  \A u \in Users : Cardinality(UploadsOf(u)) <= 1

\* a confirm-upload whose insert met the unique index: the user keeps one row
C2_Witness ==
  \E i \in DOMAIN reqs :
    /\ reqs[i].kind = "confirm"
    /\ reqs[i].result = "500"
    /\ Cardinality(UploadsOf(reqs[i].user)) = 1

\* C3: a confirm-upload by a participant who has an AudioUpload row made by
\* another request, whether that request had returned or was still running
\* when this one started, is answered with 409, and the row is the one the
\* other request made.
C3_SecondAttemptConflict ==
  \A i \in DOMAIN reqs :
    (/\ reqs[i].kind = "confirm"
     /\ reqs[i].pc = "done"
     /\ \E r \in UploadsOf(reqs[i].user) : r.id # i)
    => /\ reqs[i].result = "409"
       /\ \A r \in UploadsOf(reqs[i].user) : r.filePath = r.id /\ r.status = "PENDING"

\* --------------------------------------------------------- pipeline claims
\* the position of a status in the order of the lifecycle
Rank(st) ==
  CASE st = "IN_PROGRESS" -> 1
    [] st = "AWAITING_UPLOADS" -> 2
    [] st = "PROCESSING" -> 3
    [] st \in {"COMPLETED", "FAILED"} -> 4
    [] OTHER -> 0

\* C4: every change of the Call's status moves forward in the order
\* IN_PROGRESS, AWAITING_UPLOADS, PROCESSING, then COMPLETED or FAILED, except
\* the change from FAILED to PROCESSING.
C4_ForwardOnly ==
  [][callStatus' # callStatus =>
       \/ Rank(callStatus') > Rank(callStatus)
       \/ callStatus = "FAILED" /\ callStatus' = "PROCESSING"]_vars

\* C5: a processCall that the process endpoint invoked on a FAILED Call with
\* both uploads present and no summary passes its validation and goes on to
\* process (so that, with every stage succeeding, it ends in COMPLETED).
C5_RetryProceeds ==
  [][\A i \in DOMAIN runs :
       (/\ runs[i].via = "route"
        /\ runs[i].pc = "load"
        /\ callStatus = "FAILED"
        /\ Cardinality(audioUploads) >= 2
        /\ summaries = <<>>
        /\ runs'[i] # runs[i])
       => runs'[i].pc = "markCall"]_vars

\* C6: after any number of processCall invocations, one after the other or at
\* the same time, the Call has at most one CallSummary row, and when an
\* invocation returns the Call is in COMPLETED or in FAILED.
C6_OneSummaryAndTerminal ==
  [][/\ Len(summaries') <= 1
     /\ \A i \in DOMAIN runs :
          ~Returned(runs[i]) /\ Returned(runs'[i])
          => callStatus' \in {"COMPLETED", "FAILED"}]_vars

\* what processCall throws when role resolution, a download, the merge, the
\* upload of the merged file or the transcription fails
FatalErrors == StageErrors \cup {"RoleResolution", "UploadsMissing"}

PreconditionError(e) ==
  e = "NotEnoughUploads" \/ e \in {InvalidStatus(st) : st \in CallStatuses}

\* C8: a processCall that found fewer than 2 uploads, or a status that does
\* not permit processing, reports the error and changes nothing: the Call's
\* status, the AudioUpload rows and the CallSummary are as before.
C8_RejectionChangesNothing ==
  [][\A i \in DOMAIN runs :
       (runs[i].pc = "catch" /\ PreconditionError(runs[i].error) /\ runs'[i] # runs[i])
       => /\ callStatus' = callStatus
          /\ audioUploads' = audioUploads
          /\ summaries' = summaries]_vars

\* ------------------------------------------------------------ relay claims
\* a and b are in a call with each other
Active(a, b) ==
  /\ a # b
  /\ sock[a] = "open" /\ sock[b] = "open"
  /\ IsCallActive(a) /\ client[a].peer = b
  /\ IsCallActive(b) /\ client[b].peer = a

DisconnectStep(x) == sock[x] = "open" /\ sock'[x] = "closed"

CallEndedCount(q) == Cardinality({k \in DOMAIN q : q[k].type = "callEnded"})

\* C9: when a disconnects while a and b are in a call with each other, b is
\* sent exactly one callEnded, and b's call is over once b has handled a
\* callEnded.
C9_DisconnectEndsCall ==
  [][\A a, b \in Conns :
       /\ (Active(a, b) /\ DisconnectStep(a))
          => /\ inbox'[b] = Append(inbox[b], CallEndedEvent)
             /\ CallEndedCount(inbox'[b]) = CallEndedCount(inbox[b]) + 1
       /\ (/\ sock[b] = "open" /\ sock'[b] = "open"
           /\ inbox[b] # <<>> /\ inbox'[b] = Tail(inbox[b])
           /\ Head(inbox[b]) = CallEndedEvent)
          => /\ ~client'[b].callAccepted
             /\ client'[b].peer = ""]_vars

\* a has disconnected during its call with b, and b holds the one callEnded
C9_Witness ==
  \E a, b \in Conns :
    /\ sock[a] = "closed" /\ sock[b] = "open"
    /\ IsCallActive(a) /\ client[a].peer = b
    /\ IsCallActive(b) /\ client[b].peer = a
    /\ inbox[b] = <<CallEndedEvent>>

\* x and c have invited, or are in a call with, each other
Paired(x, c) ==
  \/ client[x].peer = c \/ client[c].peer = x
  \/ client[x].incoming = c \/ client[c].incoming = x

\* C10: when x disconnects, only a connection paired with x is sent
\* callEnded, and at most one connection is sent it.
C10_OnlyPairedNotified ==
  [][\A x \in Conns :
       DisconnectStep(x) =>
         /\ \A c \in Conns \ {x} : inbox'[c] # inbox[c] => Paired(x, c)
         /\ Cardinality({c \in Conns \ {x} : inbox'[c] # inbox[c]}) <= 1]_vars

\* the relay told c that the identity it addressed is not connected
ToldUnreachable(c) ==
  \E k \in DOMAIN inbox'[c] : inbox'[c][k].type = "targetUnreachable"

\* C11: when a callUser, answerCall or endCall names a target that is not a
\* connected socket, the sender is told that the target is unreachable, and
\* no other connection receives anything.
C11_UnreachableReported ==
  [][\A c \in Conns, t \in Conns \cup {""} :
       (\/ t \in Conns /\ CallUser(c, t) /\ sock[t] # "open"
        \/ t \in Conns /\ t = client[c].incoming /\ AnswerCall(c) /\ sock[t] # "open"
        \/ /\ LeaveCall(c, t)
           /\ LeaveTarget(c, t) \in Conns => sock[LeaveTarget(c, t)] # "open")
       => /\ ToldUnreachable(c)
          /\ \A d \in Conns \ {c} : inbox'[d] = inbox[d]]_vars

\* the inboxes after ev was delivered once, to t only
DeliveredOnce(t, ev) == [inbox EXCEPT ![t] = Append(inbox[t], ev)]

\* C12: a callUser, answerCall or endCall that names a connected target puts
\* exactly one event in the target's inbox, carrying the signal the sender
\* supplied, and nothing in any other inbox.
C12_ForwardedOnce ==
  [][\A c \in Conns, t \in Conns \cup {""} :
       /\ (t \in Conns /\ sock[t] = "open" /\ CallUser(c, t))
          => inbox' = DeliveredOnce(t, [type |-> "callUser", from |-> c, signal |-> c])
       /\ (t \in Conns /\ sock[t] = "open" /\ t = client[c].incoming /\ AnswerCall(c))
          => inbox' = DeliveredOnce(t, [type |-> "callAccepted", from |-> "",
                                        signal |-> c])
       /\ (/\ LeaveTarget(c, t) \in Conns
           /\ sock[LeaveTarget(c, t)] = "open"
           /\ LeaveCall(c, t))
          => inbox' = DeliveredOnce(LeaveTarget(c, t), CallEndedEvent)]_vars

\* c's invitation is in t's inbox, and the third connection, connected and
\* done with its own "me", holds nothing
C12_Witness ==
  \E c, t, d \in Conns :
    /\ c # t /\ d # c /\ d # t
    /\ sock[d] = "open" /\ inbox[d] = <<>>
    /\ client[c].isCalling /\ client[c].peer = t
    /\ inbox[t] = <<[type |-> "callUser", from |-> c, signal |-> c]>>

\* ----------------------------------------------------------- gate claims
\* C13: the confirm-upload that finds every participant's upload answers
\* while the processCall it started has not returned, and no later step, a
\* failure of that run included, changes a response that was given or
\* removes an AudioUpload row.
C13_FireAndForget ==
  [][/\ \A i \in DOMAIN reqs :
          /\ (reqs[i].pc = "update" /\ reqs'[i].pc = "done")
             => /\ reqs'[i].result = "200" /\ reqs'[i].ready
                /\ \E k \in DOMAIN runs' :
                     /\ k \in DOMAIN runs => runs[k] # runs'[k]
                     /\ runs'[k] = NewRun("gate")
          /\ reqs[i].pc = "done" => reqs'[i] = reqs[i]
     /\ \A r \in audioUploads :
          \E q \in audioUploads' :
            q.id = r.id /\ q.userId = r.userId /\ q.filePath = r.filePath]_vars

\* the run the gate started has failed; the response and both rows are there
C13_Witness ==
  /\ \E i \in DOMAIN reqs : reqs[i].pc = "done" /\ reqs[i].ready
  /\ \E k \in DOMAIN runs : runs[k].via = "gate" /\ runs[k].pc = "failed"
  /\ {r.id : r \in audioUploads} = {1, 2}

\* C14: every upload or confirm-upload that answers allParticipantsUploaded
\* true has set the Call to PROCESSING and started a processCall for it.
C14_ReadyStartsPipeline ==
  [][\A i \in DOMAIN reqs :
       (reqs[i].pc # "done" /\ reqs'[i].pc = "done" /\ reqs'[i].ready)
       => /\ callStatus' = "PROCESSING"
          /\ Len(runs') = Len(runs) + 1
          /\ runs'[Len(runs')] = NewRun("gate")]_vars

\* ------------------------------------------------------ membership claims
\* C15: a Call that exists has at least 1 and at most 2 CallParticipant rows.
C15_AtMostTwoParticipants ==
  callStatus # NoCall =>
    Cardinality(participants) >= 1 /\ Cardinality(participants) <= 2

RowsOf(u) == {p \in participants : p.userId = u}

RowsAfter(u) == {p \in participants' : p.userId = u}

\* C16: no user has two CallParticipant rows of the Call, whatever joins run
\* at the same time, and a join by a user who has a row ends with that one
\* row's leftAt cleared.
C16_RejoinKeepsOneRow ==
  [][/\ \A u \in People : Cardinality(RowsAfter(u)) <= 1
     /\ \A i \in DOMAIN reqs' :
          (/\ reqs'[i].kind = "join"
           /\ reqs'[i].pc = "done"
           /\ i \in DOMAIN reqs => reqs[i].pc = "rejoinClear")
          => /\ RowsAfter(reqs'[i].user) # {}
             /\ reqs'[i].result = "200" =>
                  \A p \in RowsAfter(reqs'[i].user) : ~p.leftAt]_vars

\* two joins by one user ran at the same time: the second insert met the
\* unique index, and the user has one row
C16_Witness ==
  \E i, j \in DOMAIN reqs :
    /\ reqs[i].kind = "join" /\ reqs[j].kind = "join"
    /\ reqs[i].user = reqs[j].user
    /\ reqs[i].result = "200" /\ reqs[j].result = "500"
    /\ Cardinality(RowsOf(reqs[i].user)) = 1

\* the request that a step has added is answered with a rejection
NewRequestRejected ==
  Len(reqs') > Len(reqs) =>
    reqs'[Len(reqs')].pc = "done" /\ reqs'[Len(reqs')].result # "200"

NoRowWritten == \A r \in audioUploads' : \E q \in audioUploads : q.id = r.id

\* C17: an upload or confirm-upload that reads a Call in COMPLETED or FAILED
\* is rejected at once, and while the Call is in COMPLETED or FAILED no
\* AudioUpload row is written.
C17_NoUploadAfterEnd ==
  [][(callStatus \in {"COMPLETED", "FAILED"})
       => (NewRequestRejected /\ NoRowWritten)]_vars

\* ---------------------------------------------------------- session claim
\* C18: when the two participants of a Call confirm their uploads one after
\* the other, the first answer has allParticipantsUploaded false and the
\* second true, the second answer leaves the Call in PROCESSING, and once the
\* run that the gate started has returned success getProcessingStatus gives
\* COMPLETED, 2 uploads of 2 and a summary.
C18_EndToEnd ==
  [][\A i, j \in DOMAIN reqs' :
       (i < j /\ BothConfirmed(i, j)')
       => /\ ~reqs'[i].ready /\ reqs'[j].ready
          /\ (j \in DOMAIN reqs /\ reqs[j].pc = "update") => callStatus' = "PROCESSING"
          /\ (runs' # <<>> /\ runs'[1].pc = "done")
             => GetProcessingStatus' =
                  [status |-> "COMPLETED", uploadsComplete |-> 2,
                   uploadsTotal |-> 2, hasSummary |-> TRUE]]_vars

\* the session is over: call ended, both uploads confirmed in turn, the run done
C18_Witness ==
  /\ \E p \in participants : p.leftAt
  /\ Len(reqs) = 2 /\ BothConfirmed(1, 2)
  /\ ~reqs[1].ready /\ reqs[2].ready
  /\ Len(runs) = 1 /\ runs[1].pc = "done"
  /\ callStatus = "COMPLETED"

\* ------------------------------------------------------- transcript claim
\* C19: the transcript holds the collected segments, each once, in
\* non-decreasing start time, and two segments of equal start time are in the
\* order in which they were emitted, whoever the speakers are.
C19_ChronologicalStable ==
  transcript # <<>> =>
    /\ Len(transcript) = Len(segments)
    /\ \A i \in DOMAIN segments : \E k \in DOMAIN transcript : transcript[k] = segments[i]
    /\ \A k, l \in DOMAIN transcript :
         k < l => \/ transcript[k].start < transcript[l].start
                  \/ /\ transcript[k].start = transcript[l].start
                     /\ transcript[k].text < transcript[l].text

\* speaker A's segment at 5 was emitted first, speaker B's at 2 second; the
\* transcript has B's first
C19_Witness ==
  /\ Len(segments) = 2
  /\ segments[1].speaker = "A" /\ segments[1].start = 5
  /\ segments[2].speaker = "B" /\ segments[2].start = 2
  /\ transcript = <<segments[2], segments[1]>>

\* ---------------------------------------------------------- channel claim
UsersInRole(role) == {p.userId : p \in {q \in participants : q.role = role}}

\* the run has resolved its two uploads and has not returned
Resolved(i) ==
  runs[i].pc \in {"markUploads", "download", "createSummary", "complete",
                  "completeUploads", "cleanup"}

\* C20: in every run, whoever uploaded first, the left input of the merge is
\* the upload of the participant with role caller and the right input that of
\* the participant with role callee, and channel 0 is labelled with the
\* caller, channel 1 with the callee.
C20_CallerIsChannelZero ==
  \A i \in DOMAIN runs :
    Resolved(i) =>
      /\ NameOf(MergeInputs(i).left) \subseteq UsersInRole("caller")
      /\ NameOf(MergeInputs(i).right) \subseteq UsersInRole("callee")
      /\ NameOf(MergeInputs(i).left) # {} /\ NameOf(MergeInputs(i).right) # {}
      /\ ChannelNames(i).ch0 = UsersInRole("caller")
      /\ ChannelNames(i).ch1 = UsersInRole("callee")

\* the callee uploaded first and the run is about to download and merge
C20_Witness ==
  \E i \in DOMAIN runs :
    /\ runs[i].pc = "download"
    /\ runs[i].calleeUp > 0
    /\ runs[i].callerUp > runs[i].calleeUp

C22_CleanupNeverEscalates ==
  [][\A i \in DOMAIN runs :
       (runs[i].pc = "cleanup" /\ runs'[i] # runs[i])
       => /\ runs'[i].pc = "done"
          /\ callStatus' = callStatus
          /\ summaries' = summaries]_vars

C22_Witness ==
  /\ callStatus = "COMPLETED"
  /\ \E i \in DOMAIN runs : runs[i].pc = "done"
  /\ \E r \in audioUploads : r.status = "COMPLETED" /\ r.id \notin s3Deleted

\* C23: a create that finds the callId taken is answered 409 and writes
\* nothing; creates of the same callId running at the same time produce at
\* most one Call, and a create that is not answered 201 adds no participant.
CallsCreated(q) ==
  Cardinality({i \in DOMAIN q : q[i].kind = "create" /\ q[i].result = "201"})

C23_CreateConflict ==
  [][/\ CallsCreated(reqs') <= 1
     /\ Cardinality({p \in participants' : p.role = "caller"}) <= 1
     /\ \A i \in DOMAIN reqs' :
          (/\ reqs'[i].kind = "create"
           /\ i \notin DOMAIN reqs
           /\ callStatus # NoCall)
          => reqs'[i].result = "409"
     /\ \A i \in DOMAIN reqs' :
          (/\ reqs'[i].kind = "create"
           /\ (i \in DOMAIN reqs => reqs[i] # reqs'[i])
           /\ reqs'[i].result # "201")
          => callStatus' = callStatus /\ participants' = participants]_vars

C23_Witness ==
  \E i, j, k \in DOMAIN reqs :
    /\ reqs[i].kind = "create" /\ reqs[i].result = "201"
    /\ reqs[j].kind = "create" /\ reqs[j].result = "500"
    /\ reqs[k].kind = "create" /\ reqs[k].result = "409"

\* C24: a new connection is sent one "me" event that carries its own socket
\* id, no other connection is sent anything by the connect, and the ids
\* carried by the "me" events of two different connections differ.
MeEvents(q) == {k \in DOMAIN q : q[k].type = "me"}

C24_MeOnlyToNewPeer ==
  [][/\ \A c \in Conns :
          (sock[c] = "new" /\ sock'[c] = "open")
          => /\ inbox'[c] = <<[type |-> "me", from |-> "", signal |-> c]>>
             /\ \A d \in Conns \ {c} : inbox'[d] = inbox[d]
     /\ \A c, d \in Conns :
          \A k \in MeEvents(inbox'[c]), l \in MeEvents(inbox'[d]) :
            inbox'[c][k].signal = inbox'[d][l].signal => c = d]_vars

C24_Witness ==
  \E c, d \in Conns :
    /\ c # d
    /\ sock[c] = "open" /\ sock[d] = "open"
    /\ client[c].peer # ""
    /\ MeEvents(inbox[d]) # {}

\* ----------------------------------------------------------- gate claims
\* C25: the recount decides ready by comparing the AudioUpload rows with the
\* CallParticipant rows that exist when it recounts, so a participant who
\* joined after the handler's first read is counted.
C25_RecountUsesPersistedCount ==
  [][\A i \in DOMAIN reqs :
       (reqs[i].pc = "recount" /\ reqs'[i] # reqs[i])
       => (reqs'[i].pc = "update"
             <=> Cardinality(audioUploads) >= Cardinality(participants))]_vars

\* two confirm-upload requests by the two participants of a Call, both
\* answered with 200
BothReturned(i, j) ==
  /\ i # j
  /\ Cardinality(participants) = 2
  /\ reqs[i].kind = "confirm" /\ reqs[j].kind = "confirm"
  /\ reqs[i].user # reqs[j].user
  /\ reqs[i].result = "200" /\ reqs[j].result = "200"

\* C26: once the confirm-uploads of both participants of a two-party Call are
\* answered, at least one answer has allParticipantsUploaded true and
\* processCall has been started at least once, whatever the interleaving.
C26_SomeoneSeesBoth ==
  \A i, j \in DOMAIN reqs :
    BothReturned(i, j) => /\ reqs[i].ready \/ reqs[j].ready
                          /\ \E k \in DOMAIN runs : runs[k].via = "gate"

\* both handlers inserted before either recounted
C26_Witness ==
  \E i, j \in DOMAIN reqs :
    BothReturned(i, j) /\ reqs[i].ready /\ reqs[j].ready /\ Len(runs) >= 2

\* ---------------------------------------------------- role resolution claim
Unresolved(r) == r.callerUp <= 0 \/ r.calleeUp <= 0

NoCandidate(role) == ResolveUpload(role) \subseteq {-1, 0}

ResolutionErrors == {"RoleResolution", "UploadsMissing"}

C28_GroupedBySpeaker ==
  \A k \in DOMAIN MergedTranscript :
    MergedTranscript[k].header
      <=> (k = 1 \/ MergedTranscript[k].speaker # MergedTranscript[k - 1].speaker)

\* ------------------------------------------------------ gate precondition
\* C29: when a confirm-upload answers allParticipantsUploaded true and starts
\* processCall, the Call has two AudioUpload rows, one of the caller and one
\* of a callee; a Call with a single participant starts no processCall.
C29_ReadyMeansTwoUploads ==
  [][\A i \in DOMAIN reqs :
       (reqs[i].pc = "update" /\ reqs'[i].pc = "done" /\ runs' # runs)
       => /\ Cardinality(audioUploads) = 2
          /\ \E p \in participants : p.role = "caller" /\ UploadsOf(p.userId) # {}
          /\ \E p \in participants : p.role = "callee" /\ UploadsOf(p.userId) # {}]_vars

\* ------------------------------------------------------ completion is final
\* C30: once a run has set the Call to COMPLETED, no step of any processCall
\* invocation, running at the same time or started later, changes the
\* Call's status.
C30_CompletedAbsorbing ==
  [][callStatus = "COMPLETED" => callStatus' = "COMPLETED"]_vars

\* ------------------------------------------------- completion invariants
\* C31: when processCall has set the Call to COMPLETED, the Call has a
\* CallSummary row and its mergedAudioPath is set: the summary is inserted
\* before the update that writes COMPLETED.
C31_CompletedHasSummary ==
  callStatus = "COMPLETED" => (Len(summaries) >= 1 /\ mergedAudioPath)

C31_Witness ==
  /\ callStatus = "COMPLETED"
  /\ \E i \in DOMAIN runs : runs[i].pc = "completeUploads"
  /\ Len(summaries) = 1
  /\ mergedAudioPath

\* C32: a Call in FAILED has no CallSummary row, so that the process endpoint
\* never answers a retry of a failed Call with "Call already has a summary".
C32_FailedHasNoSummary ==
  callStatus = "FAILED" => summaries = <<>>

\* ----------------------------------------------------- membership and end
\* C33: while the Call is in a status other than IN_PROGRESS no
\* CallParticipant row is added, also when a join runs at the same time as
\* the PATCH that ends the call.
C33_NoJoinAfterEnd ==
  [][(callStatus \notin {NoCall, "IN_PROGRESS"})
       => ({p.userId : p \in participants'} \subseteq {p.userId : p \in participants})]_vars

\* ------------------------------------------------------- sender identity
\* C34: the callUser event the relay puts in the target's inbox names as
\* "from" the connection that sent the callUser, whatever that connection
\* wrote in its message.
C34_FromIsSender ==
  [][\A c \in Conns : \A data \in CallUserData(c) :
       (sock[data.userToCall] = "open" /\ EmitCallUser(c, data))
       => inbox'[data.userToCall][Len(inbox'[data.userToCall])].from = c]_vars

\* ------------------------------------------------------- status counters
\* C35: getProcessingStatus never reports more uploads than participants:
\* the Call has at most as many AudioUpload rows as CallParticipant rows.
C35_UploadsWithinParticipants ==
  GetProcessingStatus.uploadsComplete <= GetProcessingStatus.uploadsTotal

\* both participants have uploaded and a duplicate insert was refused
C35_Witness ==
  /\ GetProcessingStatus.uploadsComplete = 2
  /\ GetProcessingStatus.uploadsTotal = 2
  /\ \E i \in DOMAIN reqs : reqs[i].result = "500"

C37_NoUploadLeftProcessing ==
  (runs # <<>> /\ \A i \in DOMAIN runs : Returned(runs[i]))
    => \A r \in audioUploads : r.status # "PROCESSING"

Creators == {reqs[i].user : i \in {k \in DOMAIN reqs :
                                     reqs[k].kind = "create" /\ reqs[k].result = "201"}}

\* C39: a Call that exists has exactly one participant with role caller, the
\* user whose create made it, and every other participant has role callee.
C39_OneCallerTheCreator ==
  callStatus # NoCall =>
    /\ {p.userId : p \in {q \in participants : q.role = "caller"}} = Creators
    /\ Cardinality({q \in participants : q.role = "caller"}) = 1
    /\ \A p \in participants : p.userId \notin Creators => p.role = "callee"

\* the user whose create was refused has joined, as callee
C39_Witness ==
  \E i, j \in DOMAIN reqs :
    /\ reqs[i].kind = "create" /\ reqs[i].result = "201"
    /\ reqs[j].kind = "create" /\ reqs[j].result \in {"409", "500"}
    /\ reqs[j].user # reqs[i].user
    /\ \E p \in participants : p.userId = reqs[j].user /\ p.role = "callee"

====
